---- MODULE Spec2Model ----
(***************************************************************************)
(* Model of the waterfall plot of mndza/waterfall-demo (src/src/plot.rs)   *)
(* and of its event loop (src/src/main.rs): the write head y_offset, the   *)
(* ping-pong bit, the view head time_position, the following flag          *)
(* scroll_advance, and the texture indices every update_plot call binds;   *)
(* of the averaging spectrum source (src/src/source.rs) that feeds it; and *)
(* of the sample-rate selection of the Amalthea source                     *)
(* (src/src/am_source.rs).                                                 *)
(***************************************************************************)
EXTENDS Integers, Naturals, Sequences, FiniteSets, TLC

\* ------------------------------------------------------------------------
\* Program constants (plot.rs:5-8)
\* ------------------------------------------------------------------------
TEXTURE_HEIGHT == 1024
NUM_TILES == 8
MAX_HEIGHT == NUM_TILES * TEXTURE_HEIGHT

\* i32 range of the scroll argument and of the cast sum (plot.rs:340-341)
I32_MAX == 2147483647
I32_MIN == -I32_MAX - 1

\* ------------------------------------------------------------------------
\* Bounds of the exploration
\* ------------------------------------------------------------------------
\* Long session (Spec): update_plot calls explored, past one full wrap of
\* y_offset; operations explored from the first scroll call on (that call,
\* later scroll calls and later update_plot calls)
MaxCalls == 8200
MaxTail == 3
\* Short session (SpecScroll): update_plot calls and scroll calls explored
MaxShortCalls == 3
MaxShortScrolls == 3
\* Source session (SpecSource): largest averaging count, redraw ticks
\* explored, and bins of a block (the program has NUM_SAMPLES = 2048 bins,
\* source.rs:6; every bin is treated alike)
MaxAveraging == 5
MaxTicks == 2
MaxBin == 2
\* Amalthea session (SpecAmalthea): requests explored within this distance
\* of every entry of the rate table
MaxRateOffset == 6
\* Control session (SpecUI): update_plot calls, scroll calls, and
\* set_window_size / incr_* calls explored
MaxUiCalls == 2
MaxUiScrolls == 2
MaxUiOps == 2
\* Ageing session (SpecLive): update_plot calls explored before the one
\* scroll call, and after it (more than the (T-1)*H - 1 rows a view can lag)
MaxLiveLead == 2
MaxLiveCalls == 7200

\* scroll arguments of the long session: back and forth within the range,
\* and beyond it (main.rs:95 passes any touch delta)
ScrollDeltas == {-2000, 2000, I32_MAX}
\* scroll arguments of the short session: also the key deltas of
\* main.rs:143-148, single rows, the whole height and the least i32
WideScrollDeltas ==
    ScrollDeltas \cup {-100, 100, -1, 1, NUM_TILES * TEXTURE_HEIGHT, I32_MIN}

VARIABLES
    y_offset,        \* WaterfallPlot.y_offset: u32
    pingpong,        \* WaterfallPlot.pingpong: usize
    time_position,   \* WaterfallPlot.time_position: usize
    scroll_advance,  \* WaterfallPlot.scroll_advance: bool
    frame,           \* locals of the last update_plot call: the texture
                     \* indices bound by its two passes and the cm offset
    op,              \* the last operation run: "new", "update_plot",
                     \* "scroll" or "panic"
    calls,           \* number of update_plot calls so far
    scrolls,         \* number of scroll calls so far
    aged,            \* number of update_plot calls since the first scroll
    last_delta,      \* argument of the last scroll call
    textures         \* WaterfallPlot.waterfall_textures: for each of the
                     \* NUM_TILES + 1 textures the rows it holds, as a set
                     \* of runs <<first row, last row, first call>>: row
                     \* first row + i holds the row that update_plot call
                     \* number first call + i injected

VARIABLES
    averaging,       \* DataSupplier.averaging: u32
    averaging_inv,   \* DataSupplier.averaging_inv: the factor 1/averaging,
                     \* kept exactly as the fraction [num, den]
    buffer_magsq,    \* DataSupplier.buffer_magsq, kept exactly: bin b
                     \* holds the fraction num[b] / den
    block,           \* the slice the last get_block call returned, NoBlock
                     \* when it did not return
    reads            \* results of the rx_stream.read calls the last
                     \* get_block call made, in order

VARIABLES
    samplerate,      \* AmaltheaDataSupplier.samplerate: u32
    reg_20A,         \* value last written to register 0x20A
    am_op,           \* "new", "set_samplerate" or "panic"
    requested        \* argument of the last set_samplerate call

VARIABLES
    window_width,    \* WaterfallPlot.window_width: i32
    window_height,   \* WaterfallPlot.window_height: i32
    power_offset,    \* WaterfallPlot.power_offset: f32 (whole numbers only)
    power_max,       \* WaterfallPlot.power_max: f32 (whole numbers only)
    power_min,       \* WaterfallPlot.power_min: f32 (whole numbers only)
    uniforms,        \* values last set for the shader uniforms
                     \* waterfallScaleAdd, waterfallScaleMult and resolution
    ui_calls         \* number of set_window_size and incr_* calls so far

plot_vars == <<y_offset, pingpong, time_position, scroll_advance, frame, op,
               calls, scrolls, aged, last_delta, textures>>

src_vars == <<averaging, averaging_inv, buffer_magsq, block, reads>>

am_vars == <<samplerate, reg_20A, am_op, requested>>

ui_vars == <<window_width, window_height, power_offset, power_max,
             power_min, uniforms, ui_calls>>

vars == <<plot_vars, src_vars, am_vars, ui_vars>>

\* ------------------------------------------------------------------------
\* Arithmetic helpers, as the Rust code computes them
\* ------------------------------------------------------------------------
\* i32/u32::rem_euclid with a positive modulus: the result is in 0..b-1
rem_euclid(a, b) == a % b

\* Ord::max / Ord::min
max(a, b) == IF a >= b THEN a ELSE b
min(a, b) == IF a <= b THEN a ELSE b

\* whether the i32 sum a + b leaves the i32 range
overflows_i32(a, b) ==
    \/ (b > 0 /\ a > I32_MAX - b)
    \/ (b < 0 /\ a < I32_MIN - b)

\* i32 addition with two's-complement wrap (overflow checks off): the sum
\* less 2^32 on overflow, plus 2^32 on underflow
wrapping_add_i32(a, b) ==
    IF b > 0 /\ a > I32_MAX - b THEN (a + I32_MIN) + (b + I32_MIN)
    ELSE IF b < 0 /\ a < I32_MIN - b THEN (a - I32_MIN) + (b - I32_MIN)
    ELSE a + b

\* largest view lag: (NUM_TILES - 1) * TEXTURE_HEIGHT - 1  (plot.rs:240, 343)
MaxTimePosition == (NUM_TILES - 1) * TEXTURE_HEIGHT - 1

\* plot.rs:149, 326, 336: 1.0 / (power_max - power_min).abs(), kept exactly
\* as the fraction [num, den]; den = 0 stands for the f32 infinity
PowerScale(pmax, pmin) ==
    [num |-> 1, den |-> IF pmax >= pmin THEN pmax - pmin ELSE pmin - pmax]

\* ------------------------------------------------------------------------
\* WaterfallPlot::new  (plot.rs:77-214)
\* ------------------------------------------------------------------------
NoFrame ==
    [target_texture |-> -1, front_texture |-> -1, back_texture |-> -1,
     scroll_offset |-> -1, cm_offset |-> -1, tex_idx0 |-> -1,
     tex_idx1 |-> -1, cm_tex0 |-> -1, cm_tex1 |-> -1]

WaterfallPlotNew ==
    /\ y_offset = 0
    /\ pingpong = 0
    /\ time_position = 0
    /\ scroll_advance = TRUE
    /\ frame = NoFrame
    /\ op = "new"
    /\ calls = 0
    /\ scrolls = 0
    /\ aged = 0
    /\ last_delta = 0
    /\ textures = [t \in 0..NUM_TILES |-> {}]
    /\ window_width = 1024
    /\ window_height = 1024
    /\ power_offset = 30
    /\ power_min = 0
    /\ power_max = 100
    /\ uniforms = [waterfallScaleAdd  |-> 30,
                   waterfallScaleMult |-> PowerScale(100, 0),
                   resolution         |-> <<1024, 1024>>]
    /\ ui_calls = 0

\* ------------------------------------------------------------------------
\* WaterfallPlot::update_plot  (plot.rs:221-303)
\* ------------------------------------------------------------------------
\* mutant of NextYOffset: the write head does not wrap
NextYOffsetNoWrap(y) == y + 1

\* plot.rs:226
NextYOffset(y) == rem_euclid(y + 1, MAX_HEIGHT)

\* mutant of TargetTexture: the tile index is rounded up
TargetTextureRoundsUp(y) ==
    rem_euclid((y + TEXTURE_HEIGHT - 1) \div TEXTURE_HEIGHT, NUM_TILES)

\* plot.rs:227
TargetTexture(y) == y \div TEXTURE_HEIGHT

\* mutant of ztexture: the scratch slot aliases the last tile
ztextureLastTile == NUM_TILES - 1

\* plot.rs:228
ztexture == NUM_TILES

\* mutant of FrontBack: the two roles are exchanged
FrontBackExchanged(pp, target) ==
    IF pp = 0 THEN <<NUM_TILES, target>> ELSE <<target, NUM_TILES>>

\* plot.rs:229-233: <<front_texture, back_texture>>
FrontBack(pp, target) ==
    IF pp = 0 THEN <<target, ztexture>> ELSE <<ztexture, target>>

\* mutant of AdvanceTimePosition: the limit is one row too low
AdvanceTimePositionStopsShort(adv, tp) ==
    IF adv = FALSE /\ tp < (NUM_TILES - 1) * TEXTURE_HEIGHT - 2
    THEN tp + 1 ELSE tp

\* mutant of AdvanceTimePosition: the view never ages
AdvanceTimePositionNever(adv, tp) == tp

\* mutant of AdvanceTimePosition: the lag wraps to 0 past the limit
AdvanceTimePositionWraps(adv, tp) ==
    IF adv = FALSE THEN (tp + 1) % ((NUM_TILES - 1) * TEXTURE_HEIGHT) ELSE tp

\* mutant of AdvanceTimePosition: the upper limit is not tested
AdvanceTimePositionNoLimit(adv, tp) == IF adv = FALSE THEN tp + 1 ELSE tp

\* plot.rs:239-243
AdvanceTimePosition(adv, tp) ==
    IF adv = FALSE /\ tp < MaxTimePosition THEN tp + 1 ELSE tp

\* mutant of ScrollOffset: the view lag is not subtracted
ScrollOffsetIgnoresView(y, tp) == rem_euclid(y, MAX_HEIGHT)

\* mutant of ScrollOffset: the difference is not wrapped
ScrollOffsetNoWrap(y, tp) == y - tp

\* plot.rs:244-245
ScrollOffset(y, tp) == rem_euclid(y - tp, MAX_HEIGHT)

\* plot.rs:246
CmOffset(so) == rem_euclid(so, TEXTURE_HEIGHT)

\* mutant of TexIdx0: the tile index is taken one row ahead
TexIdx0RowAhead(so) == rem_euclid(so + 1, MAX_HEIGHT) \div TEXTURE_HEIGHT

\* plot.rs:248
TexIdx0(so) == so \div TEXTURE_HEIGHT

\* mutant of TexIdx1: the tile after tex_idx0, not the tile before it
TexIdx1After(idx0) == rem_euclid(idx0 + 1, NUM_TILES)

\* plot.rs:249
TexIdx1(idx0) == rem_euclid(idx0 - 1, NUM_TILES)

\* mutant of CmTex: the write-target tile is not substituted
CmTexNoSubstitution(idx, target, front) == idx

\* plot.rs:250-259
CmTex(idx, target, front) == IF idx = target THEN front ELSE idx

\* mutant of FlipPingpong: the bit is set, not flipped
FlipPingpongSets(pp) == 1

\* plot.rs:302
FlipPingpong(pp) == IF pp = 0 THEN 1 ELSE 0

\* plot.rs:269-272: the yOffset uniform of the injection pass
YOffsetUniform(y) == rem_euclid(y, TEXTURE_HEIGHT)

\* the runs of a texture with row r taken out
WithoutRow(content, r) ==
    UNION { IF r < run[1] \/ r > run[2]
            THEN {run}
            ELSE (IF run[1] < r THEN {<<run[1], r - 1, run[3]>>} ELSE {})
                 \cup (IF r < run[2]
                       THEN {<<r + 1, run[2], run[3] + (r + 1 - run[1])>>}
                       ELSE {})
          : run \in content }

\* the injection pass (plot.rs:274-289 with shaders/fs_waterfall.glsl): the
\* render target receives the content of the source texture with row r
\* replaced by the row injected by call number id
RenderRow(source, r, id) ==
    LET rest == WithoutRow(source, r)
        left == {run \in rest : run[2] = r - 1 /\ run[3] + (r - run[1]) = id}
    IN  IF left = {}
        THEN rest \cup {<<r, r, id>>}
        ELSE (rest \ left) \cup {<<run[1], r, run[3]>> : run \in left}

UpdatePlot ==
    /\ op # "panic"
    /\ LET y      == NextYOffset(y_offset)
           target == TargetTexture(y)
           fb     == FrontBack(pingpong, target)
           front  == fb[1]
           back   == fb[2]
           tp     == AdvanceTimePosition(scroll_advance, time_position)
           so     == ScrollOffset(y, tp)
           idx0   == TexIdx0(so)
           idx1   == TexIdx1(idx0)
       IN  /\ y_offset' = y
           /\ time_position' = tp
           /\ frame' = [target_texture |-> target,
                        front_texture  |-> front,
                        back_texture   |-> back,
                        scroll_offset  |-> so,
                        cm_offset      |-> CmOffset(so),
                        tex_idx0       |-> idx0,
                        tex_idx1       |-> idx1,
                        cm_tex0        |-> CmTex(idx0, target, front),
                        cm_tex1        |-> CmTex(idx1, target, front)]
           /\ textures' = [textures EXCEPT ![front] =
                   RenderRow(textures[back], YOffsetUniform(y), calls + 1)]
    /\ pingpong' = FlipPingpong(pingpong)
    /\ op' = "update_plot"
    /\ calls' = calls + 1
    /\ aged' = IF scrolls > 0 THEN aged + 1 ELSE aged
    /\ UNCHANGED <<scroll_advance, scrolls, last_delta>>

\* ------------------------------------------------------------------------
\* WaterfallPlot::scroll  (plot.rs:340-346)
\* ------------------------------------------------------------------------
\* mutant of ScrollSum: the delta is subtracted
ScrollSumSubtracts(tp, val) == tp - val

\* plot.rs:341: self.time_position as i32 + val, when it fits in i32
ScrollSum(tp, val) == tp + val

\* mutant of ClampTimePosition: the lower clamp .max(0) is missing
ClampTimePositionNoMax(sum) == min(sum, MaxTimePosition)

\* mutant of ClampTimePosition: the upper clamp is one row too high
ClampTimePositionOffByOne(sum) == min(max(sum, 0), MaxTimePosition + 1)

\* plot.rs:342-344: .max(0).min((NUM_TILES as i32 - 1) * TEXTURE_HEIGHT as i32 - 1)
ClampTimePosition(sum) == min(max(sum, 0), MaxTimePosition)

\* the sum fits in i32: the call returns in every build
Scroll(val) ==
    /\ op # "panic"
    /\ ~overflows_i32(time_position, val)
    /\ time_position' = ClampTimePosition(ScrollSum(time_position, val))
    /\ scroll_advance' = (time_position' = 0)
    /\ op' = "scroll"
    /\ scrolls' = scrolls + 1
    /\ last_delta' = val
    /\ UNCHANGED <<y_offset, pingpong, frame, calls, aged, textures>>

\* the sum overflows i32 and the build wraps (overflow checks off)
ScrollWrap(val) ==
    /\ op # "panic"
    /\ overflows_i32(time_position, val)
    /\ time_position' = ClampTimePosition(wrapping_add_i32(time_position, val))
    /\ scroll_advance' = (time_position' = 0)
    /\ op' = "scroll"
    /\ scrolls' = scrolls + 1
    /\ last_delta' = val
    /\ UNCHANGED <<y_offset, pingpong, frame, calls, aged, textures>>

\* the sum overflows i32 and the build checks overflow: the call panics
ScrollPanic(val) ==
    /\ op # "panic"
    /\ overflows_i32(time_position, val)
    /\ op' = "panic"
    /\ scrolls' = scrolls + 1
    /\ last_delta' = val
    /\ UNCHANGED <<y_offset, pingpong, time_position, scroll_advance, frame,
                   calls, aged, textures>>

\* ------------------------------------------------------------------------
\* DataSupplier  (source.rs:8-134)
\* ------------------------------------------------------------------------
Bins == 1..MaxBin

\* buffer_magsq with 0.0 in every bin
Zeroes == [num |-> [b \in Bins |-> 0], den |-> 1]

\* Signals on the stream during one get_block call. A block of samples is
\* represented by its Fourier transform, the content of buffer_c32 after
\* process_with_scratch (source.rs:118-119): with "impulses" every block
\* has the same flat spectrum, with "chirp" the block of the i-th read
\* differs from every other block and from bin to bin
Signals == {"impulses", "chirp"}

SignalBlock(signal, i) ==
    [b \in Bins |-> IF signal = "impulses" THEN [re |-> 1, im |-> 0]
                                            ELSE [re |-> i, im |-> b]]

\* outcomes of rx_stream.read (source.rs:107-115): Ok, or Err with a
\* soapysdr::ErrorCode: the one get_block singles out, or one of the others
\* (no samples within the timeout)
ResultCodes == {"Ok", "Overflow", "Timeout"}

\* what the n reads of one get_block call can give: for each read its
\* outcome and, when Ok, the block read
ReadSequences(n) ==
    { [i \in 1..n |->
          [result |-> codes[i],
           data   |-> IF codes[i] = "Ok" THEN SignalBlock(signal, i)
                      ELSE << >>]] :
      codes \in [1..n -> ResultCodes], signal \in Signals }

\* no slice returned
NoBlock == [num |-> << >>, den |-> 0]

\* source.rs:35: 1.0 / averaging as f32
AveragingInv(n) == [num |-> 1, den |-> n]

\* DataSupplier::new (source.rs:34-68)
DataSupplierNew(n) ==
    /\ averaging = n
    /\ averaging_inv = AveragingInv(n)
    /\ buffer_magsq = Zeroes
    /\ block = NoBlock
    /\ reads = << >>

\* mutant of ResetBuffer: the accumulator is not reset
ResetBufferKeeps(buf) == buf

\* source.rs:103: buffer_magsq.iter_mut().for_each(|x| *x = 0.0)
ResetBuffer(buf) == Zeroes

\* mutant of Iterations: the loop stops one iteration early
IterationsOneLess(n) == n - 1

\* source.rs:105: for _ in 0..self.averaging
Iterations(n) == n

\* mutant of OnReadError: every error ends the call
OnReadErrorAlwaysPanics(code) == "panic"

\* mutant of OnReadError: every error skips the iteration
OnReadErrorAlwaysContinues(code) == "continue"

\* source.rs:111-114: Overflow => continue, _ => panic!
OnReadError(code) == IF code = "Overflow" THEN "continue" ELSE "panic"

\* Complex32::norm_sqr
norm_sqr(c) == c.re * c.re + c.im * c.im

\* source.rs:122-124: buffer_magsq[i] += buffer_c32[i].norm_sqr()
Accumulate(buf, data) ==
    [num |-> [b \in Bins |-> buf.num[b] + norm_sqr(data[b]) * buf.den],
     den |-> buf.den]

\* source.rs:128-130: *x *= self.averaging_inv
Scale(buf, inv) ==
    [num |-> [b \in Bins |-> buf.num[b] * inv.num],
     den |-> buf.den * inv.den]

\* source.rs:105-125: iterations i..n of the loop, the k-th read giving
\* results[k]; yields the accumulator, the number of reads made and whether
\* the loop panicked
RECURSIVE ReadLoop(_, _, _, _)
ReadLoop(buf, results, i, n) ==
    IF i > n
    THEN [buffer |-> buf, attempts |-> i - 1, panicked |-> FALSE]
    ELSE IF results[i].result = "Ok"
    THEN ReadLoop(Accumulate(buf, results[i].data), results, i + 1, n)
    ELSE IF OnReadError(results[i].result) = "continue"
    THEN ReadLoop(buf, results, i + 1, n)
    ELSE [buffer |-> buf, attempts |-> i, panicked |-> TRUE]

\* DataSupplier::get_block (source.rs:101-133)
GetBlock(buf, inv, n, results) ==
    LET loop == ReadLoop(ResetBuffer(buf), results, 1, Iterations(n))
    IN  IF loop.panicked
        THEN loop
        ELSE [loop EXCEPT !.buffer = Scale(loop.buffer, inv)]

\* ------------------------------------------------------------------------
\* AmaltheaDataSupplier::set_samplerate  (am_source.rs:88-109)
\* ------------------------------------------------------------------------
\* A u32 is kept as its two 16-bit halves <<high, low>>
Half == 65536
U32_MAX == <<Half - 1, Half - 1>>

\* the u32 of a natural number below 2^31
to_u32(x) == <<x \div Half, x % Half>>

\* a < b on u32
less_u32(a, b) == a[1] < b[1] \/ (a[1] = b[1] /\ a[2] < b[2])

\* `u as i32`: the two's-complement reading of the 32 bits
as_i32(u) ==
    IF u[1] >= Half \div 2 THEN (u[1] - Half) * Half + u[2]
    ELSE u[1] * Half + u[2]

\* `x as u32` of an i32: the same 32 bits
as_u32(x) ==
    IF x >= 0 THEN <<x \div Half, x % Half>>
    ELSE <<(x \div Half) + Half, x % Half>>

\* i32::abs with overflow checks off: abs(i32::MIN) is i32::MIN
wrapping_abs_i32(x) == IF x = I32_MIN THEN I32_MIN ELSE IF x < 0 THEN -x ELSE x

\* am_source.rs:91-92
samplerates ==
    <<4000000, 2000000, 4000000 \div 3, 1000000, 800000, 2000000 \div 3,
      500000, 400000>>
sr_values == <<1, 2, 3, 4, 5, 6, 8, 10>>

\* am_source.rs:97: (samplerate as i32 - samplerates[i] as i32).abs() as u32,
\* with overflow checks off
RateErr(req, i) ==
    as_u32(wrapping_abs_i32(wrapping_add_i32(as_i32(req), -samplerates[i])))

\* am_source.rs:97: the subtraction or the abs overflows in some iteration
RateErrOverflows(req) ==
    \E i \in 1..Len(samplerates) :
        \/ overflows_i32(as_i32(req), -samplerates[i])
        \/ as_i32(req) = I32_MIN + samplerates[i]

\* am_source.rs:94-102: iterations i..8 of the search (indices from 1)
RECURSIVE BestMatch(_, _, _, _)
BestMatch(req, i, best_match, lowest_err) ==
    IF i > Len(samplerates) THEN best_match
    ELSE IF less_u32(RateErr(req, i), lowest_err)
    THEN BestMatch(req, i + 1, i, RateErr(req, i))
    ELSE BestMatch(req, i + 1, best_match, lowest_err)

\* AmaltheaDataSupplier::new (am_source.rs:35-73)
AmaltheaNew ==
    /\ samplerate = 0
    /\ reg_20A = -1
    /\ am_op = "new"
    /\ requested = to_u32(0)

\* am_source.rs:104-107: the match is stored and written to register 0x20A
StoreMatch(req) ==
    LET best_match == BestMatch(req, 1, 1, U32_MAX)
    IN  /\ samplerate' = samplerates[best_match]
        /\ reg_20A' = 128 + sr_values[best_match]
        /\ am_op' = "set_samplerate"
        /\ requested' = req

\* no step of the search overflows: the call returns in every build
SetSamplerate(req) ==
    /\ am_op # "panic"
    /\ ~RateErrOverflows(req)
    /\ StoreMatch(req)

\* a step of the search overflows and the build wraps (overflow checks off)
SetSamplerateWrap(req) ==
    /\ am_op # "panic"
    /\ RateErrOverflows(req)
    /\ StoreMatch(req)

\* a step of the search overflows and the build checks overflow: the call
\* panics before anything is stored
SetSampleratePanic(req) ==
    /\ am_op # "panic"
    /\ RateErrOverflows(req)
    /\ am_op' = "panic"
    /\ requested' = req
    /\ UNCHANGED <<samplerate, reg_20A>>

\* requests explored: around every table entry, around the midpoints of
\* neighbouring entries, and the ends and the middle of the u32 range
Requests ==
    { to_u32(samplerates[i] + d) :
        i \in 1..Len(samplerates), d \in -MaxRateOffset..MaxRateOffset }
    \cup { to_u32((samplerates[i] + samplerates[i + 1]) \div 2 + d) :
        i \in 1..(Len(samplerates) - 1), d \in -1..1 }
    \cup { to_u32(0), to_u32(I32_MAX), <<Half \div 2, 0>>,
           <<Half \div 2 + 6, 6784>>, <<Half \div 2 + 100, 0>>,
           <<Half - 62, 0>>, U32_MAX }

\* ------------------------------------------------------------------------
\* WaterfallPlot::set_window_size, incr_offset, incr_max, incr_min
\* (plot.rs:305-338)
\* ------------------------------------------------------------------------
\* the state of the waterfall that these four methods never assign
history_vars == <<y_offset, pingpong, time_position, scroll_advance, frame,
                  calls, scrolls, aged, last_delta, textures>>

\* mutant of SetWindowSize: the tiles are allocated anew for the window
SetWindowSizeReallocates(width, height) ==
    /\ op # "panic"
    /\ window_width' = as_i32(width)
    /\ window_height' = as_i32(height)
    /\ uniforms' = [uniforms EXCEPT !.resolution = <<width, height>>]
    /\ textures' = [t \in 0..NUM_TILES |-> {}]
    /\ op' = "set_window_size"
    /\ ui_calls' = ui_calls + 1
    /\ UNCHANGED <<y_offset, pingpong, time_position, scroll_advance, frame,
                   calls, scrolls, aged, last_delta>>
    /\ UNCHANGED <<power_offset, power_max, power_min>>

\* plot.rs:305-311, width and height being u32
SetWindowSize(width, height) ==
    /\ op # "panic"
    /\ window_width' = as_i32(width)
    /\ window_height' = as_i32(height)
    /\ uniforms' = [uniforms EXCEPT !.resolution = <<width, height>>]
    /\ op' = "set_window_size"
    /\ ui_calls' = ui_calls + 1
    /\ UNCHANGED history_vars
    /\ UNCHANGED <<power_offset, power_max, power_min>>

\* plot.rs:313-318
IncrOffset(val) ==
    /\ op # "panic"
    /\ power_offset' = power_offset + val
    /\ uniforms' = [uniforms EXCEPT !.waterfallScaleAdd = power_offset + val]
    /\ op' = "incr_offset"
    /\ ui_calls' = ui_calls + 1
    /\ UNCHANGED history_vars
    /\ UNCHANGED <<window_width, window_height, power_max, power_min>>

\* plot.rs:320-328
IncrMax(val) ==
    /\ op # "panic"
    /\ power_max' = power_max + val
    /\ uniforms' = [uniforms EXCEPT
           !.waterfallScaleMult = PowerScale(power_max + val, power_min)]
    /\ op' = "incr_max"
    /\ ui_calls' = ui_calls + 1
    /\ UNCHANGED history_vars
    /\ UNCHANGED <<window_width, window_height, power_offset, power_min>>

\* plot.rs:330-338
IncrMin(val) ==
    /\ op # "panic"
    /\ power_min' = power_min + val
    /\ uniforms' = [uniforms EXCEPT
           !.waterfallScaleMult = PowerScale(power_max, power_min + val)]
    /\ op' = "incr_min"
    /\ ui_calls' = ui_calls + 1
    /\ UNCHANGED history_vars
    /\ UNCHANGED <<window_width, window_height, power_offset, power_max>>

\* steps of the keys A/Z, S/X and D/C (main.rs:110-127)
PowerSteps == {10, -10}

\* window sizes of Resized events (main.rs:81-85): u32 width and height
WindowSizes ==
    { <<to_u32(800), to_u32(600)>>, <<to_u32(1), to_u32(1)>>,
      <<U32_MAX, to_u32(0)>> }

\* scroll arguments of the control session: the key deltas of
\* main.rs:143-148 and a delta beyond the range
UiScrollDeltas == {-100, 100, I32_MAX}

\* ------------------------------------------------------------------------
\* Event loop (main.rs:67-155)
\* ------------------------------------------------------------------------
\* main.rs:53-54 with the default averaging of main.rs:26-27
Init ==
    /\ WaterfallPlotNew
    /\ DataSupplierNew(1)
    /\ AmaltheaNew

\* main.rs:76-79: waterfallplot.update_plot(samples_supplier.get_block()),
\* the reads of the call giving results
RedrawRequested(results) ==
    /\ op # "panic"
    /\ LET got == GetBlock(buffer_magsq, averaging_inv, averaging, results)
       IN  /\ buffer_magsq' = got.buffer
           /\ reads' = SubSeq(results, 1, got.attempts)
           /\ IF got.panicked
              THEN /\ block' = NoBlock
                   /\ op' = "panic"
                   /\ UNCHANGED <<y_offset, pingpong, time_position,
                                  scroll_advance, frame, calls, scrolls,
                                  aged, last_delta, textures>>
              ELSE /\ block' = got.buffer
                   /\ UpdatePlot
    /\ UNCHANGED <<averaging, averaging_inv>>

\* a long session with few scroll calls
Next ==
    \/ /\ calls < MaxCalls
       /\ scrolls + aged < MaxTail
       /\ UpdatePlot
       /\ UNCHANGED <<src_vars, am_vars, ui_vars>>
    \/ /\ scrolls + aged < MaxTail
       /\ \E val \in ScrollDeltas : Scroll(val)
       /\ UNCHANGED <<src_vars, am_vars, ui_vars>>
    \/ /\ scrolls + aged < MaxTail
       /\ \E val \in ScrollDeltas : ScrollWrap(val)
       /\ UNCHANGED <<src_vars, am_vars, ui_vars>>
    \/ /\ scrolls + aged < MaxTail
       /\ \E val \in ScrollDeltas : ScrollPanic(val)
       /\ UNCHANGED <<src_vars, am_vars, ui_vars>>

Spec == Init /\ [][Next]_vars

\* a short session with many scroll calls
NextScroll ==
    \/ /\ calls < MaxShortCalls
       /\ UpdatePlot
       /\ UNCHANGED <<src_vars, am_vars, ui_vars>>
    \/ /\ scrolls < MaxShortScrolls
       /\ \E val \in WideScrollDeltas : Scroll(val)
       /\ UNCHANGED <<src_vars, am_vars, ui_vars>>
    \/ /\ scrolls < MaxShortScrolls
       /\ \E val \in WideScrollDeltas : ScrollWrap(val)
       /\ UNCHANGED <<src_vars, am_vars, ui_vars>>
    \/ /\ scrolls < MaxShortScrolls
       /\ \E val \in WideScrollDeltas : ScrollPanic(val)
       /\ UNCHANGED <<src_vars, am_vars, ui_vars>>

SpecScroll == Init /\ [][NextScroll]_vars

\* a session of redraw ticks, for every averaging count (main.rs:26-27, 54)
InitSource ==
    /\ WaterfallPlotNew
    /\ \E n \in 1..MaxAveraging : DataSupplierNew(n)
    /\ AmaltheaNew

NextSource ==
    /\ calls < MaxTicks
    /\ \E results \in ReadSequences(averaging) : RedrawRequested(results)
    /\ UNCHANGED <<am_vars, ui_vars>>

SpecSource == InitSource /\ [][NextSource]_vars

\* a session of set_samplerate calls on the Amalthea source
NextAmalthea ==
    \/ /\ \E req \in Requests : SetSamplerate(req)
       /\ UNCHANGED <<plot_vars, src_vars, ui_vars>>
    \/ /\ \E req \in Requests : SetSamplerateWrap(req)
       /\ UNCHANGED <<plot_vars, src_vars, ui_vars>>
    \/ /\ \E req \in Requests : SetSampleratePanic(req)
       /\ UNCHANGED <<plot_vars, src_vars, ui_vars>>

SpecAmalthea == Init /\ [][NextAmalthea]_vars

\* a short session of every operation of the plot
NextUI ==
    \/ /\ calls < MaxUiCalls
       /\ UpdatePlot
       /\ UNCHANGED <<src_vars, am_vars, ui_vars>>
    \/ /\ scrolls < MaxUiScrolls
       /\ \E val \in UiScrollDeltas : Scroll(val)
       /\ UNCHANGED <<src_vars, am_vars, ui_vars>>
    \/ /\ scrolls < MaxUiScrolls
       /\ \E val \in UiScrollDeltas : ScrollWrap(val)
       /\ UNCHANGED <<src_vars, am_vars, ui_vars>>
    \/ /\ scrolls < MaxUiScrolls
       /\ \E val \in UiScrollDeltas : ScrollPanic(val)
       /\ UNCHANGED <<src_vars, am_vars, ui_vars>>
    \/ /\ ui_calls < MaxUiOps
       /\ \E size \in WindowSizes : SetWindowSize(size[1], size[2])
       /\ UNCHANGED <<src_vars, am_vars>>
    \/ /\ ui_calls < MaxUiOps
       /\ \E val \in PowerSteps : IncrOffset(val)
       /\ UNCHANGED <<src_vars, am_vars>>
    \/ /\ ui_calls < MaxUiOps
       /\ \E val \in PowerSteps : IncrMax(val)
       /\ UNCHANGED <<src_vars, am_vars>>
    \/ /\ ui_calls < MaxUiOps
       /\ \E val \in PowerSteps : IncrMin(val)
       /\ UNCHANGED <<src_vars, am_vars>>

SpecUI == Init /\ [][NextUI]_vars

\* scroll arguments of the ageing session: one row, the key delta of
\* main.rs:147 and a delta close to the limit
LiveDeltas == {1, 100, 7000}

\* a session that is scrolled back once and then only redrawn: rows
\* injected before the scroll call
LiveLead ==
    /\ scrolls = 0
    /\ calls < MaxLiveLead
    /\ UpdatePlot
    /\ UNCHANGED <<src_vars, am_vars, ui_vars>>

\* the one scroll call
LiveScroll ==
    /\ scrolls = 0
    /\ \E val \in LiveDeltas : Scroll(val)
    /\ UNCHANGED <<src_vars, am_vars, ui_vars>>

\* rows injected after the scroll call (main.rs:73-79: every pass of the
\* event loop requests a redraw)
LiveTick ==
    /\ scrolls = 1
    /\ aged < MaxLiveCalls
    /\ UpdatePlot
    /\ UNCHANGED <<src_vars, am_vars, ui_vars>>

NextLive == LiveLead \/ LiveScroll \/ LiveTick

\* update_plot keeps being called after the scroll call
SpecLive == Init /\ [][NextLive]_vars /\ WF_vars(LiveTick)

\* ------------------------------------------------------------------------
\* Claims
\* ------------------------------------------------------------------------

\* C1: in every state reached by any interleaving of update_plot and scroll
\* calls, with any scroll delta (also deltas larger than the whole range),
\* time_position is within [0, (T-1)*H - 1], which is 0..7167.
C1_TimePositionInRange ==
    /\ time_position >= 0
    /\ time_position <= (NUM_TILES - 1) * TEXTURE_HEIGHT - 1
    /\ time_position <= 7167

\* C1 witness: a scroll by more than the whole range after some frames left
\* the view head at the upper end of the range.
C1_Witness ==
    /\ op = "scroll"
    /\ calls > 0
    /\ last_delta = I32_MAX
    /\ time_position = 7167

\* C2: after k update_plot calls and no scroll call, y_offset = k mod (T*H),
\* the target tile of the last call is floor(y_offset / H), time_position
\* is 0 and the view is still following; for k = 1025: y_offset = 1025 and
\* the target tile is 1.
C2_NoScrollRun ==
    scrolls = 0 =>
        /\ y_offset = calls % (NUM_TILES * TEXTURE_HEIGHT)
        /\ calls > 0 => frame.target_texture = y_offset \div TEXTURE_HEIGHT
        /\ time_position = 0
        /\ scroll_advance = TRUE
        /\ calls = 1025 => (y_offset = 1025 /\ frame.target_texture = 1)

\* C2 witness: 1025 frames were injected and no scroll call was made.
C2_Witness ==
    /\ calls = 1025
    /\ scrolls = 0
    /\ y_offset = 1025
    /\ frame.target_texture = 1

\* C3: for every state and every delta whose sum with time_position fits in
\* i32, scroll(delta) sets time_position to
\* clamp(time_position + delta, 0, (T-1)*H - 1) and the following flag to
\* (new time_position = 0).
C3_ScrollClamps ==
    [][ (op' = "scroll" /\ scrolls' = scrolls + 1
            /\ ~overflows_i32(time_position, last_delta'))
        => LET sum == time_position + last_delta'
               top == (NUM_TILES - 1) * TEXTURE_HEIGHT - 1
           IN  /\ time_position' = IF sum < 0 THEN 0
                                    ELSE IF sum > top THEN top ELSE sum
               /\ scroll_advance' = (time_position' = 0) ]_vars

\* C3 witness: a scroll back by 100 rows from a lag of 2000 rows left the
\* view 1900 rows behind, not following.
C3_Witness ==
    /\ op = "scroll"
    /\ last_delta = -100
    /\ time_position = 1900
    /\ scroll_advance = FALSE

\* C4 (as claimed): from the state reached by 1025 injections with no
\* scrolling, scroll(-2000) yields time_position = 2000, not following.
C4_AsClaimed ==
    (calls = 1025 /\ scrolls = 1 /\ op = "scroll" /\ last_delta = -2000)
        => (time_position = 2000 /\ scroll_advance = FALSE)

\* C4 (amended): from the state reached by 1025 injections with no
\* scrolling, scroll(-2000) leaves time_position = 0 with the view still
\* following; it is scroll(2000) that yields time_position = 2000, not
\* following.
C4_ScrollScenario ==
    (calls = 1025 /\ scrolls = 1 /\ op = "scroll") =>
        /\ last_delta = -2000 => (time_position = 0 /\ scroll_advance = TRUE)
        /\ last_delta = 2000 => (time_position = 2000 /\ scroll_advance = FALSE)

\* C4 witness: scroll(-2000) was called right after the 1025th injection,
\* as the first scroll call.
C4_Witness ==
    /\ calls = 1025
    /\ scrolls = 1
    /\ op = "scroll"
    /\ last_delta = -2000
    /\ y_offset = 1025

\* C5: on every update_plot call, time_position increases by exactly 1 if
\* the view is not following and time_position < (T-1)*H - 1, and is
\* unchanged if the view is following or time_position is (T-1)*H - 1.
C5_AutoAdvance ==
    [][ calls' = calls + 1 =>
          IF scroll_advance = FALSE
                /\ time_position < (NUM_TILES - 1) * TEXTURE_HEIGHT - 1
          THEN time_position' = time_position + 1
          ELSE time_position' = time_position ]_vars

\* C5 witness: the tick after scroll(2000) aged the view to 2001 rows.
C5_Witness ==
    /\ op = "update_plot"
    /\ scrolls = 1
    /\ aged = 1
    /\ last_delta = 2000
    /\ scroll_advance = FALSE
    /\ time_position = 2001

\* C6: in every update_plot call the injection pass reads back and renders
\* into front with front /= back, one of the two being the scratch slot T
\* and the other the target tile floor(y_offset / H).
C6_TwoDistinctTextures ==
    calls > 0 =>
        /\ frame.front_texture # frame.back_texture
        /\ {frame.front_texture, frame.back_texture}
              = {NUM_TILES, y_offset \div TEXTURE_HEIGHT}

\* C6 witness: a call rendered from the last tile (7) into the scratch
\* slot (8).
C6_Witness ==
    /\ calls > 0
    /\ frame.back_texture = NUM_TILES - 1
    /\ frame.front_texture = NUM_TILES

C8_CompositeAvoidsBack ==
    calls > 0 =>
        /\ frame.tex_idx0 = frame.target_texture
              => frame.cm_tex0 = frame.front_texture
        /\ frame.tex_idx1 = frame.target_texture
              => frame.cm_tex1 = frame.front_texture
        /\ frame.cm_tex0 # frame.back_texture
        /\ frame.cm_tex1 # frame.back_texture

\* C8 witness: with the view lagging, the lower tile of the view was the
\* write-target tile, the injection read that tile, and the composite pass
\* bound the scratch slot in its place.
C8_Witness ==
    /\ calls > 0
    /\ time_position > 0
    /\ frame.tex_idx1 = frame.target_texture
    /\ frame.back_texture = frame.target_texture
    /\ frame.cm_tex1 = NUM_TILES

\* C9: for two consecutive update_plot calls with no scroll in between in
\* which scroll_offset advances by one row: if the new scroll_offset is a
\* multiple of H, the new tex_idx0 is (previous tex_idx0 + 1) mod T and the
\* new cm_offset is 0; otherwise tex_idx0 is unchanged.
C9_TileBoundary ==
    [][ (op = "update_plot" /\ calls' = calls + 1
            /\ frame'.scroll_offset
                  = (frame.scroll_offset + 1) % (NUM_TILES * TEXTURE_HEIGHT))
        => IF frame'.scroll_offset % TEXTURE_HEIGHT = 0
           THEN /\ frame'.tex_idx0 = (frame.tex_idx0 + 1) % NUM_TILES
                /\ frame'.cm_offset = 0
           ELSE frame'.tex_idx0 = frame.tex_idx0 ]_vars

\* C9 witness: following the write head, scroll_offset wrapped from the
\* last row of tile 7 to row 0 of tile 0.
C9_Witness ==
    /\ op = "update_plot"
    /\ scrolls = 0
    /\ calls = NUM_TILES * TEXTURE_HEIGHT
    /\ frame.scroll_offset = 0
    /\ frame.tex_idx0 = 0
    /\ frame.cm_offset = 0

\* the reads rs met no error other than Overflow
NoFatal(rs) == \A i \in 1..Len(rs) : rs[i].result \in {"Ok", "Overflow"}

\* every read of rs succeeded
AllOk(rs) == \A i \in 1..Len(rs) : rs[i].result = "Ok"

\* the i-th read of rs failed with an error other than Overflow
FatalAt(rs, i) == rs[i].result \notin {"Ok", "Overflow"}

\* sum over the successful reads of rs of the squared magnitude in bin b
RECURSIVE SumMagSq(_, _)
SumMagSq(rs, b) ==
    IF rs = << >> THEN 0
    ELSE (IF Head(rs).result = "Ok" THEN norm_sqr(Head(rs).data[b]) ELSE 0)
         + SumMagSq(Tail(rs), b)

\* C11: in a get_block call with averaging = N whose reads fail with
\* Overflow only, the call is not aborted: exactly N reads are made, and the
\* returned vector is the sum of the squared-magnitude spectra of the
\* successful reads multiplied by 1/N.
C11_OverflowSkipsIteration ==
    (op # "new" /\ NoFatal(reads)) =>
        /\ op = "update_plot"
        /\ Len(reads) = averaging
        /\ block # NoBlock
        /\ block = buffer_magsq
        /\ \A b \in Bins :
              block.num[b] * averaging = SumMagSq(reads, b) * block.den

\* C11 witness: averaging = 5 and only the third read overflowed; the call
\* returned (2 + 5 + 17 + 26) / 5 in bin 1.
C11_Witness ==
    /\ op = "update_plot"
    /\ averaging = 5
    /\ Len(reads) = 5
    /\ reads[3].result = "Overflow"
    /\ \A i \in {1, 2, 4, 5} : reads[i].result = "Ok"
    /\ reads[1].data # reads[2].data
    /\ block.num[1] = 50
    /\ block.den = 5

\* C12: every error-free get_block call with averaging = N returns the
\* arithmetic mean of the N squared-magnitude spectra read during that
\* call: nothing of an earlier call contributes.
C12_MeanOfThisCall ==
    (op = "update_plot" /\ AllOk(reads)) =>
        /\ Len(reads) = averaging
        /\ \A b \in Bins :
              block.num[b] * Len(reads) = SumMagSq(reads, b) * block.den

\* C12 witness: the second call of a session with averaging = 3 returned
\* the mean (2 + 5 + 10) / 3 of its own three blocks in bin 1.
C12_Witness ==
    /\ op = "update_plot"
    /\ calls = 2
    /\ averaging = 3
    /\ AllOk(reads)
    /\ reads[1].data # reads[3].data
    /\ block.num[1] = 17
    /\ block.den = 3

\* C13: a read that fails with an error code other than Overflow ends the
\* session at that iteration: it is the last read made, no vector is
\* returned, no row is injected in that tick, and no operation follows.
C13_FatalReadAborts ==
    [][ /\ op # "panic"
        /\ (\E i \in 1..Len(reads') : FatalAt(reads', i)) =>
              /\ op' = "panic"
              /\ block' = NoBlock
              /\ FatalAt(reads', Len(reads'))
              /\ \A i \in 1..(Len(reads') - 1) : ~FatalAt(reads', i)
              /\ calls' = calls
              /\ y_offset' = y_offset
              /\ frame' = frame
              /\ textures' = textures ]_vars

\* C13 witness: in the second tick of a session with averaging = 5 the
\* second read timed out; three reads were never made.
C13_Witness ==
    /\ op = "panic"
    /\ averaging = 5
    /\ calls = 1
    /\ Len(reads) = 2
    /\ reads[1].result = "Ok"
    /\ reads[2].result = "Timeout"
    /\ block = NoBlock

\* a - b on u32, for a >= b
sub_u32(a, b) ==
    IF a[2] >= b[2] THEN <<a[1] - b[1], a[2] - b[2]>>
    ELSE <<a[1] - b[1] - 1, a[2] + Half - b[2]>>

\* |a - b| on u32
abs_diff_u32(a, b) == IF less_u32(a, b) THEN sub_u32(b, a) ELSE sub_u32(a, b)

\* the entry e of the rate table is as near to the request req as any entry
Nearest(req, e) ==
    \A i \in 1..Len(samplerates) :
        ~less_u32(abs_diff_u32(req, to_u32(samplerates[i])),
                  abs_diff_u32(req, to_u32(e)))

\* C14 as claimed: for every u32 request, set_samplerate stores the entry
\* of the rate table whose absolute difference from the request is minimal.
C14_AsClaimed ==
    am_op = "set_samplerate" =>
        /\ \E i \in 1..Len(samplerates) : samplerate = samplerates[i]
        /\ Nearest(requested, samplerate)

\* C15 as claimed: on a redraw tick for which the source delivers no frame
\* (a read times out), the compositor keeps running and shows the previous
\* frame unchanged.
C15_AsClaimed ==
    [][ (reads' # << >> /\ reads'[Len(reads')].result = "Timeout") =>
            /\ op' # "panic"
            /\ textures' = textures
            /\ calls' = calls ]_vars

\* C15 amended: every redraw tick waits for get_block: a tick draws only
\* after get_block made all its reads and returned, and it then injects the
\* returned row; a tick in which a read times out draws nothing and ends
\* the session.
C15_DrawWaitsForBlock ==
    [][ /\ op' = "update_plot" =>
              /\ calls' = calls + 1
              /\ Len(reads') = averaging
              /\ NoFatal(reads')
              /\ block' # NoBlock
              /\ block' = buffer_magsq'
        /\ (reads' # << >> /\ reads'[Len(reads')].result = "Timeout") =>
              /\ op' = "panic"
              /\ calls' = calls
              /\ textures' = textures ]_vars

\* C15 witness: the second tick of a session with averaging = 2 drew after
\* both reads were made, the first of them overflowing.
C15_Witness ==
    /\ op = "update_plot"
    /\ calls = 2
    /\ averaging = 2
    /\ Len(reads) = 2
    /\ reads[1].result = "Overflow"
    /\ reads[2].result = "Ok"
    /\ block # NoBlock

\* C16: an update_plot call renders into only the current target tile
\* floor(y_offset / H) or the scratch slot T; the content of every other
\* tile 0..T-1 is left unchanged by the call.
C16_OtherTilesUnchanged ==
    [][ calls' = calls + 1 =>
          /\ frame'.front_texture \in {y_offset' \div TEXTURE_HEIGHT, NUM_TILES}
          /\ \A t \in 0..NUM_TILES :
                t # frame'.front_texture => textures'[t] = textures[t]
          /\ textures'[frame'.front_texture] # textures[frame'.front_texture]
       ]_vars

\* C16 witness: a call rendered into tile 3, after tiles 0..2 were filled.
C16_Witness ==
    /\ op = "update_plot"
    /\ frame.front_texture = 3
    /\ textures[2] # {}
    /\ textures[4] = {}

C18_AsClaimed ==
    (op = "update_plot" /\ time_position >= TEXTURE_HEIGHT) =>
        /\ frame.tex_idx0 # frame.target_texture
        /\ frame.tex_idx1 # frame.target_texture

\* C18 (amended): whenever update_plot runs with time_position >= H,
\* tex_idx0 is not the write-target tile; tex_idx1 is the write-target
\* tile exactly when time_position > 6*H + (y_offset mod H), and the
\* composite pass then binds the front texture in its place.
C18_ViewOffTargetTile ==
    (op = "update_plot" /\ time_position >= TEXTURE_HEIGHT) =>
        /\ frame.tex_idx0 # y_offset \div TEXTURE_HEIGHT
        /\ (frame.tex_idx1 = y_offset \div TEXTURE_HEIGHT)
             <=> (time_position
                    > (NUM_TILES - 2) * TEXTURE_HEIGHT
                        + (y_offset % TEXTURE_HEIGHT))
        /\ frame.tex_idx1 = y_offset \div TEXTURE_HEIGHT
             => frame.cm_tex1 = frame.front_texture

\* C18 witness: with the view at the largest lag, the lower tile of the
\* view is the write-target tile.
C18_Witness ==
    /\ op = "update_plot"
    /\ time_position = (NUM_TILES - 1) * TEXTURE_HEIGHT - 1
    /\ frame.tex_idx1 = frame.target_texture
    /\ frame.tex_idx0 # frame.target_texture

\* C19 (as claimed): after any sequence of update_plot and scroll calls,
\* each of the two textures bound by the composite pass has already been
\* the render target of some injection (holds at least one injected row).
C19_AsClaimed ==
    calls > 0 =>
        /\ textures[frame.cm_tex0] # {}
        /\ textures[frame.cm_tex1] # {}

\* C20: after any sequence of update_plot and scroll calls every index is
\* in range: y_offset in [0, T*H - 1]; target_texture, tex_idx0, tex_idx1
\* in [0, T-1]; front_texture, back_texture, cm_tex0, cm_tex1 in [0, T];
\* cm_offset in [0, H-1].
C20_IndicesInRange ==
    /\ y_offset \in 0..(NUM_TILES * TEXTURE_HEIGHT - 1)
    /\ calls > 0 =>
          /\ frame.target_texture \in 0..(NUM_TILES - 1)
          /\ frame.tex_idx0 \in 0..(NUM_TILES - 1)
          /\ frame.tex_idx1 \in 0..(NUM_TILES - 1)
          /\ frame.front_texture \in 0..NUM_TILES
          /\ frame.back_texture \in 0..NUM_TILES
          /\ frame.cm_tex0 \in 0..NUM_TILES
          /\ frame.cm_tex1 \in 0..NUM_TILES
          /\ frame.cm_offset \in 0..(TEXTURE_HEIGHT - 1)
          /\ frame.scroll_offset \in 0..(NUM_TILES * TEXTURE_HEIGHT - 1)

\* C20 witness: y_offset wrapped from T*H - 1 to 0 with the view lagging:
\* the view is in tile 6 and the write head in tile 0.
C20_Witness ==
    /\ op = "update_plot"
    /\ calls = NUM_TILES * TEXTURE_HEIGHT
    /\ y_offset = 0
    /\ time_position > 0
    /\ frame.target_texture = 0
    /\ frame.tex_idx0 = NUM_TILES - 2

\* C21: y_offset and pingpong are changed only by update_plot, y_offset by
\* exactly +1 mod T*H and pingpong by one flip per call; scroll, incr_offset,
\* incr_min, incr_max and set_window_size leave y_offset, pingpong and the
\* tile contents unchanged, and the last four also leave time_position and
\* the following flag unchanged.
C21_OnlyUpdatePlotMovesWriteHead ==
    [][ IF calls' = calls + 1
        THEN /\ op' = "update_plot"
             /\ y_offset' = (y_offset + 1) % (NUM_TILES * TEXTURE_HEIGHT)
             /\ pingpong' = 1 - pingpong
        ELSE /\ y_offset' = y_offset
             /\ pingpong' = pingpong
             /\ textures' = textures
             /\ (ui_calls' = ui_calls + 1 =>
                   /\ time_position' = time_position
                   /\ scroll_advance' = scroll_advance) ]_vars

\* C21 witness: a resize came after a row was injected and the view was
\* scrolled back.
C21_Witness ==
    /\ op = "set_window_size"
    /\ window_width = 800
    /\ calls = 1
    /\ textures[0] # {}
    /\ time_position = 100
    /\ scroll_advance = FALSE

\* rows between the write head and the row displayed by the last
\* update_plot call
DisplayedLag == (y_offset - frame.scroll_offset) % (NUM_TILES * TEXTURE_HEIGHT)

\* C22 as claimed: while the view is scrolled back and rows keep being
\* injected with no further scroll call, the lag between y_offset and the
\* displayed row stays constant from tick to tick.
C22_AsClaimed ==
    [][ (op = "update_plot" /\ calls' = calls + 1 /\ scroll_advance = FALSE)
            => DisplayedLag' = DisplayedLag ]_vars

\* C22 amended: while the view is scrolled back and rows keep being
\* injected with no further scroll call, the lag between y_offset and the
\* displayed row grows by one row per tick until it is (T-1)*H - 1, and
\* stays constant only from then on.
C22_LagGrowsToLimit ==
    [][ (op = "update_plot" /\ calls' = calls + 1 /\ scroll_advance = FALSE)
            => DisplayedLag' =
                   IF DisplayedLag < (NUM_TILES - 1) * TEXTURE_HEIGHT - 1
                   THEN DisplayedLag + 1 ELSE DisplayedLag ]_vars

\* C22 witness: two ticks after scroll(2000) the displayed row is 2002 rows
\* behind the write head.
C22_Witness ==
    /\ op = "update_plot"
    /\ scrolls = 1
    /\ aged = 2
    /\ last_delta = 2000
    /\ scroll_advance = FALSE
    /\ DisplayedLag = 2002

\* C23: while the view is not following and time_position < (T-1)*H - 1
\* before the call, an update_plot call that follows an update_plot call
\* computes the same scroll_offset, tex_idx0, tex_idx1 and cm_offset as that
\* call did.
C23_SameHistoryRow ==
    [][ ( /\ op = "update_plot"
          /\ calls' = calls + 1
          /\ scroll_advance = FALSE
          /\ time_position < (NUM_TILES - 1) * TEXTURE_HEIGHT - 1 )
        => /\ frame'.scroll_offset = frame.scroll_offset
           /\ frame'.tex_idx0 = frame.tex_idx0
           /\ frame'.tex_idx1 = frame.tex_idx1
           /\ frame'.cm_offset = frame.cm_offset ]_vars

\* C23 witness: the view was scrolled back by 2000 rows at row 8190; the
\* second tick after it wrapped y_offset to 0 and still shows row 6190.
C23_Witness ==
    /\ op = "update_plot"
    /\ scrolls = 1
    /\ aged = 2
    /\ y_offset = 0
    /\ time_position = 2002
    /\ frame.scroll_offset = 6190
    /\ frame.tex_idx0 = 6

\* C24: in every reachable state scroll_advance is true exactly when
\* time_position = 0; no update_plot call returns the view to following,
\* only a scroll call whose clamped result is 0 does.
C24_FollowingIffZero ==
    /\ [](scroll_advance = (time_position = 0))
    /\ [][ (scroll_advance = FALSE /\ scroll_advance' = TRUE)
               => /\ op' = "scroll"
                  /\ scrolls' = scrolls + 1
                  /\ time_position' = 0 ]_vars

\* C24 witness: scroll(-2000) returned a view that had aged by one row to
\* following.
C24_Witness ==
    /\ op = "scroll"
    /\ scrolls = 2
    /\ aged = 1
    /\ last_delta = -2000
    /\ time_position = 0
    /\ scroll_advance = TRUE

\* C25: if the view is not following and no scroll call occurs, then under
\* repeated update_plot calls time_position eventually reaches (T-1)*H - 1
\* and stays there; from then on scroll_offset advances by one row
\* (mod T*H) with every call.
C25_AgesToLimit ==
    /\ (scrolls = 1 /\ scroll_advance = FALSE)
           ~> [](time_position = (NUM_TILES - 1) * TEXTURE_HEIGHT - 1)
    /\ [][ ( /\ op = "update_plot"
             /\ calls' = calls + 1
             /\ scroll_advance = FALSE
             /\ time_position = (NUM_TILES - 1) * TEXTURE_HEIGHT - 1 )
           => frame'.scroll_offset =
                  (frame.scroll_offset + 1) % (NUM_TILES * TEXTURE_HEIGHT)
       ]_vars

\* C25 witness: after scroll(100) the view aged to the limit, and
\* scroll_offset went on from T*H - 1 to 0.
C25_Witness ==
    /\ op = "update_plot"
    /\ scrolls = 1
    /\ last_delta = 100
    /\ scroll_advance = FALSE
    /\ time_position = (NUM_TILES - 1) * TEXTURE_HEIGHT - 1
    /\ aged > (NUM_TILES - 1) * TEXTURE_HEIGHT - 1 - 100
    /\ frame.scroll_offset = 0

====
